---- MODULE Spec2Model ----
(***************************************************************************)
(* Model of src/src/parser.rs: the expression driver parse_expr over a     *)
(* parser instance shared behind Arc<Mutex<..>>, the ParserError type and  *)
(* the conversion From<TokenizerError> for ParserError.                    *)
(*                                                                         *)
(* The tokenizer (super::tokenizer) and the dialect implementing the       *)
(* SQLParser trait are not part of parser.rs; they are modelled from the   *)
(* specification (sections 4.1 and 4.2).                                   *)
(*                                                                         *)
(* Each element of Callers is one invocation of parse_expr on the shared   *)
(* instance, running on a thread of its own.                               *)
(***************************************************************************)
EXTENDS Naturals, Sequences, FiniteSets

\* Longest input (in tokens) held by the shared parser instance.
MaxLen == 5

\* Longest input under the fair specification (a call consumes at most one
\* token, so two calls never read past the second).
MaxFairLen == 3

\* The concurrent invocations of parse_expr on the one shared instance.
Callers == {"c1", "c2"}

None == <<"None">>

\* The mutex is free.
Free == "free"

\* ------------------------------------------------------------------
\* Tokens (tokenizer collaborator).  <<"Bad", _>> stands for a malformed
\* lexical construct: peeking there yields Err(TokenizerError).
LitOne == <<"Literal", "1">>
LitTwo == <<"Literal", "2">>
IdentA == <<"Identifier", "a">>
TokPlus == <<"Op", "+">>
TokMult == <<"Op", "*">>
TokVendor == <<"Op", "||">>
TokBad == <<"Bad", "@">>

Alphabet == {LitOne, LitTwo, IdentA, TokPlus, TokMult, TokVendor, TokBad}

RECURSIVE Streams(_)
Streams(n) ==
    IF n = 0 THEN {<<>>}
    ELSE LET shorter == Streams(n - 1)
         IN  shorter \cup {Append(s, a) : s \in {x \in shorter : Len(x) = n - 1}, a \in Alphabet}

VARIABLES
    tokens,     \* the input held by the shared instance's tokenizer
    pos,        \* how many tokens the tokenizer has consumed
    holder,     \* the caller owning the MutexGuard, or Free
    poisoned,   \* the Mutex's poison flag
    pc,         \* per caller: where it stands in parse_expr
    x,          \* per caller: the local `x` of parse_expr
    result,     \* per caller: the value parse_expr returned
    startPos,   \* per caller: tokenizer position when it obtained the guard
    endPos,     \* per caller: tokenizer position when it returned
    infixLog,   \* the calls made to parse_infix, in order
    lastConv    \* the last TokenizerError handed to From::from and its outcome

vars == <<tokens, pos, holder, poisoned, pc, x, result, startPos, endPos, infixLog, lastConv>>

\* ------------------------------------------------------------------
\* Data model: SQLExpr, SQLOperator, ParserError, Result.
Literal(text) == <<"Literal", text>>
Identifier(name) == <<"Identifier", name>>
Binary(left, op, right) == <<"Binary", left, op, right>>
WrongToken(expected, actual, line, col) == <<"WrongToken", expected, actual, line, col>>
Custom(message) == <<"Custom", message>>
Ok(v) == <<"Ok", v>>
Err(e) == <<"Err", e>>
Panic == <<"Panic">>

IsOk(r) == r[1] = "Ok"
IsErr(r) == r[1] = "Err"

\* ------------------------------------------------------------------
\* Tokenizer collaborator.
TokenizerError(message, position) == <<"TokenizerError", message, position>>

\* peek_token at position p: Ok(Some(token)), Ok(None) at end of input, or
\* Err(TokenizerError) on a malformed construct.
peek_token(p) ==
    IF p >= Len(tokens) THEN Ok(None)
    ELSE IF tokens[p + 1][1] = "Bad"
         THEN Err(TokenizerError(tokens[p + 1][2], p + 1))
         ELSE Ok(tokens[p + 1])

\* Binding power of a token; 0 for a token that is no infix operator.
precedence(tok) ==
    IF tok = TokPlus THEN 10
    ELSE IF tok = TokMult THEN 20
    ELSE IF tok = TokVendor THEN 5
    ELSE 0

SQLOperatorOf(tok) ==
    IF tok = TokPlus THEN "Plus" ELSE IF tok = TokMult THEN "Mult" ELSE "Custom"

\* ------------------------------------------------------------------
\* impl From<TokenizerError> for ParserError: the body is unimplemented!().
from(e) == Panic

\* ------------------------------------------------------------------
\* The dialect behind the SQLParser trait.
\* parse_prefix at tokenizer position p: [res, pos].
parse_prefix(p) ==
    LET peeked == peek_token(p)
    IN  IF IsErr(peeked)
        THEN [res |-> from(peeked[2]), pos |-> p]       \* the `?` conversion
        ELSE IF peeked[2] = None
        THEN [res |-> Err(Custom("unexpected end of input")), pos |-> p]
        ELSE IF peeked[2][1] \in {"Literal", "Identifier"}
        THEN [res |-> Ok(peeked[2]), pos |-> p + 1]
        ELSE [res |-> Err(WrongToken(<<"Literal", "Identifier">>, peeked[2], 0, p + 1)),
              pos |-> p]

\* Whether the dialect's parse_infix has a rule for the token; it declines
\* (Ok(None)) otherwise.
infix_applicable(tok) == tok \in {TokPlus, TokMult}

\* ------------------------------------------------------------------
InitWith(inputs) ==
    /\ tokens \in inputs
    /\ pos = 0
    /\ holder = Free
    /\ poisoned = FALSE
    /\ pc = [t \in Callers |-> "idle"]
    /\ x = [t \in Callers |-> None]
    /\ result = [t \in Callers |-> None]
    /\ startPos = [t \in Callers |-> 0]
    /\ endPos = [t \in Callers |-> 0]
    /\ infixLog = <<>>
    /\ lastConv = <<None, None>>

Init == InitWith(Streams(MaxLen))

FairInit == InitWith(Streams(MaxFairLen))

\* A caller enters parse_expr(parser).
Call(t) ==
    /\ pc[t] = "idle"
    /\ pc' = [pc EXCEPT ![t] = "lock"]
    /\ UNCHANGED <<tokens, pos, holder, poisoned, x, result, startPos, endPos, infixLog, lastConv>>

\* Lock as it would be if the guard were taken without waiting for its owner.
LockWithoutWaiting(t) ==
    /\ pc[t] = "lock"
    /\ IF poisoned
       THEN /\ pc' = [pc EXCEPT ![t] = "panicked_lock"]
            /\ UNCHANGED <<holder, startPos>>
       ELSE /\ pc' = [pc EXCEPT ![t] = "prefix"]
            /\ holder' = t
            /\ startPos' = [startPos EXCEPT ![t] = pos]
    /\ UNCHANGED <<tokens, pos, poisoned, x, result, endPos, infixLog, lastConv>>

\* let mut guard = parser.lock().unwrap();
\* lock() blocks while another caller owns the guard; on a poisoned mutex it
\* returns Err(PoisonError) and unwrap() panics.
Lock(t) ==
    /\ pc[t] = "lock"
    /\ holder = Free
    /\ IF poisoned
       THEN /\ pc' = [pc EXCEPT ![t] = "panicked_lock"]
            /\ UNCHANGED <<holder, startPos>>
       ELSE /\ pc' = [pc EXCEPT ![t] = "prefix"]
            /\ holder' = t
            /\ startPos' = [startPos EXCEPT ![t] = pos]
    /\ UNCHANGED <<tokens, pos, poisoned, x, result, endPos, infixLog, lastConv>>

\* The effect of guard.parse_prefix() on the caller and the instance, then
\* control passing to `next`, with `log` the parse_infix calls made so far.
PrefixOutcome(t, next, log) ==
    LET r == parse_prefix(pos)
        peeked == peek_token(pos)
    IN  /\ lastConv' = IF IsErr(peeked) THEN <<peeked[2], from(peeked[2])>> ELSE lastConv
        /\ IF r.res = Panic
           THEN /\ pc' = [pc EXCEPT ![t] = "panicked_prefix"]
                /\ holder' = Free
                /\ poisoned' = TRUE
                /\ UNCHANGED <<pos, x, infixLog>>
           ELSE /\ pc' = [pc EXCEPT ![t] = next]
                /\ x' = [x EXCEPT ![t] = r.res]
                /\ pos' = r.pos
                /\ infixLog' = log
                /\ UNCHANGED <<holder, poisoned>>

InfixCall(threshold, tok) ==
    [threshold |-> threshold, tokPrec |-> precedence(tok), precedence |-> precedence(tok)]

\* The step as it would be if the driver went on calling parse_prefix for as
\* long as input remains.
ParsePrefixStepUntilEnd(t) ==
    /\ pc[t] = "prefix"
    /\ holder = t
    /\ PrefixOutcome(t, IF parse_prefix(pos).pos < Len(tokens) THEN "prefix" ELSE "return",
                     infixLog)
    /\ UNCHANGED <<tokens, result, startPos, endPos>>

\* The step as it would be if the driver called parse_infix after every
\* successful prefix, without peeking.
ParsePrefixStepThenInfix(t) ==
    /\ pc[t] = "prefix"
    /\ holder = t
    /\ PrefixOutcome(t, "return",
                     IF IsOk(parse_prefix(pos).res)
                     THEN Append(infixLog, [threshold |-> 0, tokPrec |-> 0, precedence |-> 0])
                     ELSE infixLog)
    /\ UNCHANGED <<tokens, result, startPos, endPos>>

\* The step as it would be if the driver folded every following token whose
\* precedence is at least the threshold (>= for >).
ParsePrefixStepAtLeast(t) ==
    /\ pc[t] = "prefix"
    /\ holder = t
    /\ LET r == parse_prefix(pos)
           nxt == peek_token(r.pos)
       IN  IF IsOk(r.res) /\ IsOk(nxt) /\ nxt[2] # None /\ precedence(nxt[2]) >= 0
           THEN /\ PrefixOutcome(t, "return", Append(infixLog, InfixCall(0, nxt[2])))
           ELSE /\ PrefixOutcome(t, "return", infixLog)
    /\ UNCHANGED <<tokens, result, startPos, endPos>>

\* let x = guard.parse_prefix();
\* A panic inside the call unwinds: the guard is dropped and poisons the mutex.
ParsePrefixStep(t) ==
    /\ pc[t] = "prefix"
    /\ holder = t
    /\ PrefixOutcome(t, "return", infixLog)
    /\ UNCHANGED <<tokens, result, startPos, endPos>>

\* Return as it would be if the guard were released on the Ok path only.
ReturnKeepingGuardOnErr(t) ==
    /\ pc[t] = "return"
    /\ holder = t
    /\ result' = [result EXCEPT ![t] = x[t]]
    /\ endPos' = [endPos EXCEPT ![t] = pos]
    /\ holder' = IF IsOk(x[t]) THEN Free ELSE t
    /\ pc' = [pc EXCEPT ![t] = "done"]
    /\ UNCHANGED <<tokens, pos, poisoned, x, startPos, infixLog, lastConv>>

\* x   (the function's value; the guard is dropped on the way out)
Return(t) ==
    /\ pc[t] = "return"
    /\ holder = t
    /\ result' = [result EXCEPT ![t] = x[t]]
    /\ endPos' = [endPos EXCEPT ![t] = pos]
    /\ holder' = Free
    /\ pc' = [pc EXCEPT ![t] = "done"]
    /\ UNCHANGED <<tokens, pos, poisoned, x, startPos, infixLog, lastConv>>

Next == \E t \in Callers : Call(t) \/ Lock(t) \/ ParsePrefixStep(t) \/ Return(t)

Spec == Init /\ [][Next]_vars

\* Every thread that can run is eventually run.
FairSpec ==
    FairInit /\ [][Next]_vars /\ \A t \in Callers : WF_vars(Lock(t)) /\ WF_vars(ParsePrefixStep(t)) /\ WF_vars(Return(t))

\* ==================================================================
\* Helpers for the properties.

\* The input as the call of t found it: the tokens from startPos[t] on.
InputOf(t) == SubSeq(tokens, startPos[t] + 1, Len(tokens))

IsOperand(tok) == tok[1] \in {"Literal", "Identifier"}
IsInfixOp(tok) == infix_applicable(tok)

\* No malformed lexical construct anywhere in the input.
LexicallyValid == \A i \in 1..Len(tokens) : tokens[i][1] # "Bad"

\* operand (op operand)+ , every op an infix operator the dialect handles
IsOperandChain(s) ==
    /\ Len(s) >= 3
    /\ Len(s) % 2 = 1
    /\ \A i \in 1..Len(s) : IF i % 2 = 1 THEN IsOperand(s[i]) ELSE IsInfixOp(s[i])

SamePrecedence(s) ==
    \A i, j \in 1..Len(s) : (i % 2 = 0 /\ j % 2 = 0) => precedence(s[i]) = precedence(s[j])

\* The left-nested tree over the first n tokens of an operand chain.
RECURSIVE LeftFold(_, _)
LeftFold(s, n) ==
    IF n = 1 THEN s[1]
    ELSE Binary(LeftFold(s, n - 2), SQLOperatorOf(s[n - 1]), s[n])

InCall(t) == pc[t] \in {"prefix", "return"}

\* ==================================================================
NextAfter(t) == peek_token(endPos[t])

DeclinedInfixPending(t) ==
    /\ IsOk(parse_prefix(startPos[t]).res)
    /\ IsOk(NextAfter(t))
    /\ NextAfter(t)[2] # None
    /\ precedence(NextAfter(t)[2]) > 0
    /\ ~infix_applicable(NextAfter(t)[2])

\* C1: whenever, after the prefix, the tokenizer reports a next token whose
\* precedence exceeds the threshold (0) and the dialect's parse_infix
\* declines it, parse_expr returns Err(InfixContractViolation): it neither
\* panics nor returns the left operand.
InfixContractViolationReturned ==
    \A t \in Callers :
        (pc[t] = "done" /\ DeclinedInfixPending(t))
            => result[t] = Err(<<"InfixContractViolation">>)

\* C2: on an operand chain whose operators all have the same precedence,
\* parse_expr returns the left-nested tree and consumes every token.
LeftAssociative ==
    \A t \in Callers :
        (pc[t] = "done" /\ IsOperandChain(InputOf(t)) /\ SamePrecedence(InputOf(t)))
            => /\ result[t] = Ok(LeftFold(InputOf(t), Len(InputOf(t))))
               /\ endPos[t] = Len(tokens)

IsLooseThenTight(s) ==
    /\ Len(s) = 5
    /\ IsOperandChain(s)
    /\ precedence(s[4]) > precedence(s[2])

\* C3: on `a op1 b op2 c` with op2 binding strictly tighter than op1,
\* parse_expr returns Binary(a, op1, Binary(b, op2, c)).
PrecedenceOrdering ==
    \A t \in Callers :
        (pc[t] = "done" /\ IsLooseThenTight(InputOf(t)))
            => LET s == InputOf(t)
               IN  result[t] = Ok(Binary(s[1], SQLOperatorOf(s[2]),
                                         Binary(s[3], SQLOperatorOf(s[4]), s[5])))

IsParserErrorPreserving(out, e) ==
    /\ Len(out) = 3
    /\ out[1] \in {"Custom", "Tokenizer"}
    /\ out[2] = e[2]
    /\ out[3] = e[3]

\* C6: a TokenizerError handed to the conversion comes out as a ParserError
\* value (Custom or a dedicated kind) that carries the error's message and
\* position; the conversion does not abort.
ConversionPreservesDiagnostic ==
    lastConv[1] # None => IsParserErrorPreserving(lastConv[2], lastConv[1])

PrefixFailed(t) == IsErr(parse_prefix(startPos[t]).res)
TokenizerFailed(t) == IsErr(peek_token(startPos[t]))

\* C7: a failure met during the call - an Err of parse_prefix, or an Err of
\* the tokenizer call made inside it - is what parse_expr returns, and
\* nothing is called after the failing call (no parse_infix, no token
\* consumed).
ErrorsPropagate ==
    \A t \in Callers :
        /\ (pc[t] = "done" /\ PrefixFailed(t))
              => /\ result[t] = parse_prefix(startPos[t]).res
                 /\ endPos[t] = startPos[t]
                 /\ infixLog = <<>>
        /\ (pc[t] \notin {"idle", "lock", "prefix", "panicked_lock"} /\ TokenizerFailed(t))
              => /\ pc[t] \in {"return", "done"}
                 /\ IsErr(x[t])

\* ==================================================================
\* C4: at most one caller is inside the parse (between obtaining the guard
\* and returning) at any time, and the caller inside is exactly the guard's
\* owner: every other caller that has entered is still waiting at lock().
MutualExclusion ==
    /\ \A s, t \in Callers : (InCall(s) /\ InCall(t)) => s = t
    /\ \A t \in Callers : InCall(t) <=> holder = t

BlockedWhileParsing ==
    \E s, t \in Callers : s # t /\ pc[s] = "prefix" /\ pc[t] = "lock"

IsSingleOperand(s) == Len(s) = 1 /\ IsOperand(s[1])

\* C8: on an input that is a single literal or identifier, parse_expr
\* returns exactly what parse_prefix produced, parse_infix is not called and
\* no token beyond the prefix is consumed.
PrefixOnly ==
    \A t \in Callers :
        (pc[t] = "done" /\ IsSingleOperand(InputOf(t)))
            => /\ result[t] = parse_prefix(startPos[t]).res
               /\ result[t] = Ok(InputOf(t)[1])
               /\ endPos[t] = startPos[t] + 1
               /\ infixLog = <<>>

PrefixOnlyReturned ==
    \E t \in Callers :
        pc[t] = "done" /\ IsSingleOperand(InputOf(t)) /\ result[t] = Ok(IdentA)

NotAboveThresholdPending(t) ==
    LET r == parse_prefix(startPos[t])
    IN  /\ IsOk(r.res)
        /\ IsOk(peek_token(r.pos))
        /\ peek_token(r.pos)[2] # None
        /\ precedence(peek_token(r.pos)[2]) <= 0

\* C9: parse_infix is called only for a peeked token whose precedence is
\* strictly greater than the threshold, with that token's precedence as
\* argument; and when the token after the prefix has a precedence not above
\* the threshold (0), the driver returns the left operand and leaves that
\* token unconsumed.
ThresholdRule ==
    /\ \A i \in 1..Len(infixLog) :
          /\ infixLog[i].tokPrec > infixLog[i].threshold
          /\ infixLog[i].precedence = infixLog[i].tokPrec
    /\ \A t \in Callers :
          (pc[t] = "done" /\ NotAboveThresholdPending(t))
              => /\ result[t] = parse_prefix(startPos[t]).res
                 /\ endPos[t] = parse_prefix(startPos[t]).pos

StoppedAtThreshold ==
    \E t \in Callers : pc[t] = "done" /\ NotAboveThresholdPending(t)

\* C10: the guard is owned exactly from obtaining it to the return, on the
\* Ok and the Err path alike, so the mutex is free whenever no caller is
\* inside the parse; and when no capability call panics (the input is
\* lexically valid), every caller waiting for the guard obtains it and
\* completes.
LockReleasedAndProgress ==
    /\ [](\A t \in Callers : holder = t <=> InCall(t))
    /\ []((\A t \in Callers : ~InCall(t)) => holder = Free)
    /\ \A t \in Callers : (LexicallyValid /\ pc[t] = "lock") ~> (pc[t] = "done")

ReleasedAfterOkAndErr ==
    /\ holder = Free
    /\ \A t \in Callers : pc[t] = "done"
    /\ \E s, t \in Callers : IsOk(result[s]) /\ IsErr(result[t])

====
